---------------------------- MODULE Spec2Model ----------------------------
(***************************************************************************)
(* Ricart-Agrawala mutual exclusion with Lamport clocks, as implemented by *)
(* ClientNode (src/client_node.py).                                        *)
(*                                                                         *)
(* Every node runs a driver thread (start_job_generator calling            *)
(* request_and_print), one _send_request_to_peer thread per peer and       *)
(* attempt, one gRPC handler thread per inbound RequestAccess, and one     *)
(* ReleaseAccess delivery per peer and attempt.  Each action below is one  *)
(* atomic step of one of these threads: a section under state_lock, or one *)
(* operation of the (separately locked) LamportClock.                      *)
(*                                                                         *)
(* Time is abstracted this way: an RPC deadline (ACK_TIMEOUT_SEC = 120 s)  *)
(* may expire at any moment the call is in flight; the driver's wait       *)
(* (ACK_TIMEOUT_SEC + 60 s) expires only when the event is still clear     *)
(* after every RPC of the node has terminated and been counted, because    *)
(* each RPC terminates within 120 s < 180 s.  Hence no sender thread of   *)
(* an earlier attempt is alive when _broadcast_request resets pending_acks *)
(* and the reset, the tick and the thread starts are taken as one step.    *)
(*                                                                         *)
(* The wait loop of RequestAccess polls its condition every 0.1 s: a       *)
(* handler leaves it at any moment the condition allows while it holds     *)
(* state_lock, and keeps the lock until it returns.                        *)
(*                                                                         *)
(* Specifications: Spec and FairSpec run two fully connected nodes with no *)
(* failure; SpecT adds RPC deadlines, the driver's timeout and nodes with  *)
(* an empty peer list; SpecTimeout adds only the driver's timeout and the  *)
(* empty peer lists; SpecF and FairSpecF add printer and release failures; *)
(* Spec3 and FairSpec3 run three nodes in the scenarios S1 (one requester) *)
(* and S3 (three tied requesters); SpecDown and FairSpecDown run two nodes *)
(* whose third peer has crashed (S4); SpecPrinting runs two nodes of the   *)
(* PrintingClient variant.                                                 *)
(***************************************************************************)
EXTENDS Integers, Sequences, FiniteSets, TLC

\* The client ids of the nodes (--id); unique by construction.
Nodes == {1, 2, 3}

\* Bound: the number of jobs all the job generators produce together.
MaxAttempts == 3

\* Bound: the number of RequestAccess and SendToPrinter calls that fail while
\* their server is running (deadline, connection error).
MaxFaults == 1

VARIABLES
    peers,            \* peers[n]: the nodes listed in n's --peers
    jobs,             \* jobs[n]: how many jobs n's generator produces in all
    state,            \* RAState of each node
    clock,            \* LamportClock._ts of each node
    my_request,       \* (ts, client_id, request_number) or NoRequest
    request_number,   \* attempts started by each node
    pending_acks,     \* acks still expected by each node
    all_acks_event,   \* threading.Event of each node: set or clear
    pc,               \* position of each node's driver thread
    print_ts,         \* lamport_timestamp of the PrintRequest in flight
    result,           \* what the last request_and_print returned
    calls,            \* live sender threads, with the AccessRequest they send (rn, ts)
                      \* and the AccessResponse they hold (rts, granted)
    handlers,         \* inbound RequestAccess handlers (and requests in flight); floor is
                      \* history: max(clock, lamport_timestamp) + 2 when the request was handled
    releases,         \* ReleaseAccess calls in flight
    heldLog,          \* history: the nodes in the order they entered HELD
    faults,           \* history: how many calls to a running server have failed
    expired,          \* history: (requester, peer) pairs whose RequestAccess failed while the peer deferred
    requesting,       \* PrintingClient.requesting of each node
    request_ts,       \* PrintingClient.request_ts of each node (0 stands for None)
    deferred,         \* PrintingClient.deferred of each node
    replies_needed,   \* PrintingClient.replies_needed of each node
    printed           \* history: the (client_id, request_number) the printer received, in order

\* The fields that only PrintingClient (src/client/printing_client.py) has
printingClientVars == <<requesting, request_ts, deferred, replies_needed>>

\* The fields that only ClientNode (src/client_node.py) has
clientNodeVars == <<state, my_request, pending_acks, all_acks_event, result,
                    heldLog, expired>>

vars == <<peers, jobs, state, clock, my_request, request_number, pending_acks,
          all_acks_event, pc, print_ts, result, calls, handlers, releases,
          heldLog, faults, expired, requesting, request_ts, deferred,
          replies_needed, printed>>

\* my_request = None
NoRequest == <<>>

Max(a, b) == IF a >= b THEN a ELSE b

\* LamportClock.tick: the new value of a clock holding c
Tick(c) == c + 1

\* update_on_recv adopting the incoming timestamp without the max
UpdateOnRecvNoMax(c, incoming_ts) == incoming_ts + 1

\* LamportClock.update_on_recv: the new value of a clock holding c
UpdateOnRecv(c, incoming_ts) == Max(c, incoming_ts) + 1

\* Python's (a1, a2) < (b1, b2) on pairs of integers
TupleLess(a1, a2, b1, b2) == a1 < b1 \/ (a1 = b1 /\ a2 < b2)

RECURSIVE SumOver(_, _)
SumOver(f, S) ==
    IF S = {} THEN 0
    ELSE LET x == CHOOSE y \in S : TRUE IN f[x] + SumOver(f, S \ {x})

\* state_lock of node n is free: no handler is between its tick and its return
LockFree(n) == \A h \in handlers : h.at = n => h.phase # "ticked"

CallsOf(n) == {c \in calls : c.from = n}


(***************************************************************************)
(* Initial states                                                          *)
(***************************************************************************)

\* ClientNode.__init__ of every launched node: the nodes of `up` are running
\* with the peer lists p; job generator n will produce q[n] jobs
Boot(p, q, up) ==
    /\ peers = p
    /\ jobs = q
    /\ state = [n \in Nodes |-> "RELEASED"]
    /\ clock = [n \in Nodes |-> 0]
    /\ my_request = [n \in Nodes |-> NoRequest]
    /\ request_number = [n \in Nodes |-> 0]
    /\ pending_acks = [n \in Nodes |-> 0]
    /\ all_acks_event = [n \in Nodes |-> FALSE]
    /\ pc = [n \in Nodes |-> IF n \in up THEN "idle" ELSE "off"]
    /\ print_ts = [n \in Nodes |-> 0]
    /\ result = [n \in Nodes |-> "none"]
    /\ calls = {}
    /\ handlers = {}
    /\ releases = {}
    /\ heldLog = <<>>
    /\ faults = 0
    /\ expired = {}
    /\ requesting = [n \in Nodes |-> FALSE]
    /\ request_ts = [n \in Nodes |-> 0]
    /\ deferred = [n \in Nodes |-> {}]
    /\ replies_needed = [n \in Nodes |-> {}]
    /\ printed = <<>>

\* Every node of the cluster c lists all the others of c
Mesh(c) == [n \in Nodes |-> IF n \in c THEN c \ {n} ELSE {}]

\* The ways to spread MaxAttempts jobs over the generators of the cluster c
Workloads(c) ==
    {q \in [Nodes -> 0..MaxAttempts] :
        /\ \A n \in Nodes \ c : q[n] = 0
        /\ SumOver(q, Nodes) = MaxAttempts}

\* Nodes 1 and 2 are launched, each with the other as its peer
Pair == {1, 2}

Init == \E q \in Workloads(Pair) : Boot(Mesh(Pair), q, Pair)

\* The same, where a node may also have been launched with an empty --peers
InitCfg ==
    \E q \in Workloads(Pair) :
    \E p \in [Nodes -> SUBSET Nodes] :
        /\ \A n \in Nodes : p[n] \in {Mesh(Pair)[n], {}}
        /\ Boot(p, q, Pair)

\* All three nodes launched, and only one of them generates jobs (scenario S1)
InitSolo ==
    \E q \in Workloads(Nodes) :
        /\ \E n \in Nodes : q[n] = MaxAttempts
        /\ Boot(Mesh(Nodes), q, Nodes)

\* All three nodes launched, one job each, at the moment where the three
\* drivers have run step 1 of request_and_print before any of them broadcast
\* (scenario S3): three StartAttempt steps after Boot
InitTie ==
    /\ peers = Mesh(Nodes)
    /\ jobs = [n \in Nodes |-> 1]
    /\ state = [n \in Nodes |-> "WANTED"]
    /\ clock = [n \in Nodes |-> 1]
    /\ my_request = [n \in Nodes |-> <<1, n, 1>>]
    /\ request_number = [n \in Nodes |-> 1]
    /\ pending_acks = [n \in Nodes |-> 0]
    /\ all_acks_event = [n \in Nodes |-> FALSE]
    /\ pc = [n \in Nodes |-> "broadcast"]
    /\ print_ts = [n \in Nodes |-> 0]
    /\ result = [n \in Nodes |-> "none"]
    /\ calls = {}
    /\ handlers = {}
    /\ releases = {}
    /\ heldLog = <<>>
    /\ faults = 0
    /\ expired = {}
    /\ requesting = [n \in Nodes |-> FALSE]
    /\ request_ts = [n \in Nodes |-> 0]
    /\ deferred = [n \in Nodes |-> {}]
    /\ replies_needed = [n \in Nodes |-> {}]
    /\ printed = <<>>

Init3 == InitSolo \/ InitTie

(***************************************************************************)
(* Deferral rule                                                           *)
(***************************************************************************)

\* _is_my_request_higher_priority_than with the comparison reversed
HigherPriorityReversed(n, their_req) ==
    /\ my_request[n] # NoRequest
    /\ TupleLess(their_req[1], their_req[2], my_request[n][1], my_request[n][2])

\* _is_my_request_higher_priority_than(their_req), their_req being
\* (lamport_timestamp, client_id, request_number)
IsMyRequestHigherPriorityThan(n, their_req) ==
    /\ my_request[n] # NoRequest
    /\ TupleLess(my_request[n][1], my_request[n][2], their_req[1], their_req[2])

\* The wait loop of RequestAccess without its first test (state == HELD)
DefersIgnoringHeld(h) ==
    /\ state[h.at] = "WANTED"
    /\ IsMyRequestHigherPriorityThan(h.at, <<h.ts, h.from, h.rn>>)

\* The wait loop of RequestAccess leaving only when outranked while WANTED
DefersUnlessOutranked(h) ==
    \/ state[h.at] # "WANTED"
    \/ IsMyRequestHigherPriorityThan(h.at, <<h.ts, h.from, h.rn>>)

\* The handler h stays in the wait loop of RequestAccess
Defers(h) ==
    \/ state[h.at] = "HELD"
    \/ /\ state[h.at] = "WANTED"
       /\ IsMyRequestHigherPriorityThan(h.at, <<h.ts, h.from, h.rn>>)

(***************************************************************************)
(* Driver: request_and_print, called in a loop by start_job_generator      *)
(***************************************************************************)

\* Step 1 of request_and_print, under state_lock
StartAttempt(n) ==
    /\ pc[n] = "idle"
    /\ request_number[n] < jobs[n]
    /\ LockFree(n)
    /\ state' = [state EXCEPT ![n] = "WANTED"]
    /\ request_number' = [request_number EXCEPT ![n] = @ + 1]
    /\ clock' = [clock EXCEPT ![n] = Tick(@)]
    /\ my_request' = [my_request EXCEPT ![n] = <<clock'[n], n, request_number'[n]>>]
    /\ pc' = [pc EXCEPT ![n] = "broadcast"]
    /\ UNCHANGED <<peers, jobs, pending_acks, all_acks_event, print_ts, result,
                   calls, handlers, releases, heldLog, faults, expired,
                   printingClientVars, printed>>

\* _broadcast_request: reset the counter and the event, tick, start a thread per peer
BroadcastRequest(n) ==
    /\ pc[n] = "broadcast"
    /\ pending_acks' = [pending_acks EXCEPT ![n] = Cardinality(peers[n])]
    /\ all_acks_event' = [all_acks_event EXCEPT ![n] = FALSE]
    /\ clock' = [clock EXCEPT ![n] = Tick(@)]
    /\ calls' = calls \cup
         {[from |-> n, to |-> p, rn |-> request_number[n], ts |-> clock'[n],
           phase |-> "calling", rts |-> 0, granted |-> FALSE] : p \in peers[n]}
    /\ handlers' = handlers \cup
         {[at |-> p, from |-> n, ts |-> clock'[n], rn |-> request_number[n],
           phase |-> "arrived", floor |-> 0] : p \in peers[n]}
    /\ pc' = [pc EXCEPT ![n] = "wait"]
    /\ UNCHANGED <<peers, jobs, state, my_request, request_number, print_ts, result,
                   releases, heldLog, faults, expired,
                   printingClientVars, printed>>

\* all_acks_event.wait returned True; step 3 of request_and_print
EnterHeld(n) ==
    /\ pc[n] = "wait"
    /\ all_acks_event[n]
    /\ LockFree(n)
    /\ state' = [state EXCEPT ![n] = "HELD"]
    /\ heldLog' = Append(heldLog, n)
    /\ pc' = [pc EXCEPT ![n] = "held"]
    /\ UNCHANGED <<peers, jobs, clock, my_request, request_number, pending_acks,
                   all_acks_event, print_ts, result, calls, handlers, releases,
                   faults, expired,
                   printingClientVars, printed>>

\* request_and_print resetting state, but not my_request, when the wait expires
DriverTimeoutReleases(n) ==
    /\ pc[n] = "wait"
    /\ ~all_acks_event[n]
    /\ CallsOf(n) = {}
    /\ state' = [state EXCEPT ![n] = "RELEASED"]
    /\ result' = [result EXCEPT ![n] = "timeout"]
    /\ pc' = [pc EXCEPT ![n] = "idle"]
    /\ UNCHANGED <<peers, jobs, clock, my_request, request_number,
                   pending_acks, all_acks_event, print_ts, calls, handlers,
                   releases, heldLog, faults, expired,
                   printingClientVars, printed>>

\* all_acks_event.wait returned False: request_and_print returns the timeout
DriverTimeout(n) ==
    /\ pc[n] = "wait"
    /\ ~all_acks_event[n]
    /\ CallsOf(n) = {}
    /\ result' = [result EXCEPT ![n] = "timeout"]
    /\ pc' = [pc EXCEPT ![n] = "idle"]
    /\ UNCHANGED <<peers, jobs, state, clock, my_request, request_number,
                   pending_acks, all_acks_event, print_ts, calls, handlers,
                   releases, heldLog, faults, expired,
                   printingClientVars, printed>>

\* _critical_section_print: tick and send the PrintRequest
PrintSend(n) ==
    /\ pc[n] = "held"
    /\ clock' = [clock EXCEPT ![n] = Tick(@)]
    /\ print_ts' = [print_ts EXCEPT ![n] = clock'[n]]
    /\ pc' = [pc EXCEPT ![n] = "printing"]
    /\ UNCHANGED <<peers, jobs, state, my_request, request_number, pending_acks,
                   all_acks_event, result, calls, handlers, releases, heldLog,
                   faults, expired,
                   printingClientVars, printed>>

\* SendToPrinter answers success with the request's timestamp echoed
PrintRecv(n) ==
    /\ pc[n] = "printing"
    /\ clock' = [clock EXCEPT ![n] = UpdateOnRecv(@, print_ts[n])]
    /\ result' = [result EXCEPT ![n] = "ok"]
    /\ print_ts' = [print_ts EXCEPT ![n] = 0]
    /\ pc' = [pc EXCEPT ![n] = "exit"]
    /\ printed' = Append(printed, <<n, request_number[n]>>)
    /\ UNCHANGED <<peers, jobs, state, my_request, request_number, pending_acks,
                   all_acks_event, calls, handlers, releases, heldLog, faults, expired,
                   printingClientVars>>

\* _critical_section_print letting the exception out of request_and_print
PrintFailAborts(n) ==
    /\ pc[n] = "printing"
    /\ faults < MaxFaults
    /\ faults' = faults + 1
    /\ result' = [result EXCEPT ![n] = "fail"]
    /\ print_ts' = [print_ts EXCEPT ![n] = 0]
    /\ pc' = [pc EXCEPT ![n] = "idle"]
    /\ UNCHANGED <<peers, jobs, state, clock, my_request, request_number,
                   pending_acks, all_acks_event, calls, handlers, releases,
                   heldLog, expired,
                   printingClientVars, printed>>

\* SendToPrinter raises: the printer is down, or the deadline passed after
\* the printer received the request
PrintFail(n) ==
    /\ pc[n] = "printing"
    /\ faults < MaxFaults
    /\ faults' = faults + 1
    /\ result' = [result EXCEPT ![n] = "fail"]
    /\ print_ts' = [print_ts EXCEPT ![n] = 0]
    /\ pc' = [pc EXCEPT ![n] = "exit"]
    /\ \E received \in BOOLEAN :
         printed' = IF received THEN Append(printed, <<n, request_number[n]>>)
                    ELSE printed
    /\ UNCHANGED <<peers, jobs, state, clock, my_request, request_number,
                   pending_acks, all_acks_event, calls, handlers, releases,
                   heldLog, expired,
                   printingClientVars>>

\* Step 4 of request_and_print, under state_lock (_cond)
ExitCS(n) ==
    /\ pc[n] = "exit"
    /\ LockFree(n)
    /\ state' = [state EXCEPT ![n] = "RELEASED"]
    /\ my_request' = [my_request EXCEPT ![n] = NoRequest]
    /\ pc' = [pc EXCEPT ![n] = "release"]
    /\ UNCHANGED <<peers, jobs, clock, request_number, pending_acks, all_acks_event,
                   print_ts, result, calls, handlers, releases, heldLog,
                   faults, expired,
                   printingClientVars, printed>>

\* _broadcast_release starting threads only for the peers that are running
BroadcastReleaseToRunning(n) ==
    /\ pc[n] = "release"
    /\ clock' = [clock EXCEPT ![n] = Tick(@)]
    /\ releases' = releases \cup
         {[to |-> p, from |-> n, ts |-> clock'[n], rn |-> request_number[n]] :
            p \in {q \in peers[n] : pc[q] # "off"}}
    /\ pc' = [pc EXCEPT ![n] = "idle"]
    /\ UNCHANGED <<peers, jobs, state, my_request, request_number, pending_acks,
                   all_acks_event, print_ts, result, calls, handlers, heldLog,
                   faults, expired,
                   printingClientVars, printed>>

\* _broadcast_release, then request_and_print returns (ok, info)
BroadcastRelease(n) ==
    /\ pc[n] = "release"
    /\ clock' = [clock EXCEPT ![n] = Tick(@)]
    /\ releases' = releases \cup
         {[to |-> p, from |-> n, ts |-> clock'[n], rn |-> request_number[n]] :
            p \in peers[n]}
    /\ pc' = [pc EXCEPT ![n] = "idle"]
    /\ UNCHANGED <<peers, jobs, state, my_request, request_number, pending_acks,
                   all_acks_event, print_ts, result, calls, handlers, heldLog,
                   faults, expired,
                   printingClientVars, printed>>

(***************************************************************************)
(* Inbound handlers                                                        *)
(***************************************************************************)

\* RequestAccess at a running node, before the lock: clock.update_on_recv
HandlerRecv(h) ==
    /\ h.phase = "arrived"
    /\ pc[h.at] # "off"
    /\ clock' = [clock EXCEPT ![h.at] = UpdateOnRecv(@, h.ts)]
    /\ handlers' = (handlers \ {h}) \cup
         {[h EXCEPT !.phase = "waiting", !.floor = Max(clock[h.at], h.ts) + 2]}
    /\ UNCHANGED <<peers, jobs, state, my_request, request_number, pending_acks,
                   all_acks_event, pc, print_ts, result, calls, releases,
                   heldLog, faults, expired,
                   printingClientVars, printed>>

\* RequestAccess replying without the tick of line 172
HandlerGrantNoTick(h) ==
    /\ h.phase = "waiting"
    /\ LockFree(h.at)
    /\ ~Defers(h)
    /\ handlers' = (handlers \ {h}) \cup {[h EXCEPT !.phase = "ticked"]}
    /\ UNCHANGED <<peers, jobs, state, clock, my_request, request_number,
                   pending_acks, all_acks_event, pc, print_ts, result, calls,
                   releases, heldLog, faults, expired,
                   printingClientVars, printed>>

\* RequestAccess leaves the wait loop and ticks, still holding state_lock
HandlerGrant(h) ==
    /\ h.phase = "waiting"
    /\ LockFree(h.at)
    /\ ~Defers(h)
    /\ clock' = [clock EXCEPT ![h.at] = Tick(@)]
    /\ handlers' = (handlers \ {h}) \cup {[h EXCEPT !.phase = "ticked"]}
    /\ UNCHANGED <<peers, jobs, state, my_request, request_number, pending_acks,
                   all_acks_event, pc, print_ts, result, calls, releases,
                   heldLog, faults, expired,
                   printingClientVars, printed>>

\* RequestAccess reads clock.value and returns; the reply reaches the caller
\* if its call is still open, and is dropped otherwise
HandlerReturn(h) ==
    /\ h.phase = "ticked"
    /\ handlers' = handlers \ {h}
    /\ calls' = {IF c.from = h.from /\ c.to = h.at /\ c.rn = h.rn
                    /\ c.phase = "calling"
                 THEN [c EXCEPT !.phase = "responded", !.rts = clock[h.at],
                                !.granted = TRUE]
                 ELSE c : c \in calls}
    /\ UNCHANGED <<peers, jobs, state, clock, my_request, request_number,
                   pending_acks, all_acks_event, pc, print_ts, result,
                   releases, heldLog, faults, expired,
                   printingClientVars, printed>>

\* ReleaseAccess counted as a grant by the receiver
ReleaseRecvCountsAck(r) ==
    /\ pc[r.to] # "off"
    /\ clock' = [clock EXCEPT ![r.to] = UpdateOnRecv(@, r.ts)]
    /\ pending_acks' = [pending_acks EXCEPT ![r.to] = @ - 1]
    /\ all_acks_event' = [all_acks_event EXCEPT ![r.to] =
                             IF pending_acks'[r.to] = 0 THEN TRUE ELSE @]
    /\ releases' = releases \ {r}
    /\ UNCHANGED <<peers, jobs, state, my_request, request_number, pc, print_ts,
                   result, calls, handlers, heldLog, faults, expired,
                   printingClientVars, printed>>

\* ReleaseAccess at a running node: only the clock is touched
ReleaseRecv(r) ==
    /\ pc[r.to] # "off"
    /\ clock' = [clock EXCEPT ![r.to] = UpdateOnRecv(@, r.ts)]
    /\ releases' = releases \ {r}
    /\ UNCHANGED <<peers, jobs, state, my_request, request_number, pending_acks,
                   all_acks_event, pc, print_ts, result, calls, handlers,
                   heldLog, faults, expired,
                   printingClientVars, printed>>

(***************************************************************************)
(* Sender threads                                                          *)
(***************************************************************************)

\* _send_request_to_peer: the response arrived, clock.update_on_recv
AckRecv(c) ==
    /\ c.phase = "responded"
    /\ clock' = [clock EXCEPT ![c.from] = UpdateOnRecv(@, c.rts)]
    /\ calls' = (calls \ {c}) \cup
         {[c EXCEPT !.phase = "counting", !.rts = 0, !.granted = FALSE]}
    /\ UNCHANGED <<peers, jobs, state, my_request, request_number, pending_acks,
                   all_acks_event, pc, print_ts, result, handlers, releases,
                   heldLog, faults, expired,
                   printingClientVars, printed>>

\* _send_request_to_peer: stub.RequestAccess raised (deadline, peer unreachable)
RequestFail(c) ==
    /\ c.phase = "calling"
    /\ faults < MaxFaults
    /\ faults' = faults + 1
    /\ calls' = (calls \ {c}) \cup {[c EXCEPT !.phase = "counting"]}
    /\ expired' = expired \cup
         {<<c.from, c.to>> : h \in {g \in handlers :
              g.at = c.to /\ g.from = c.from /\ g.rn = c.rn
              /\ g.phase = "waiting" /\ Defers(g)}}
    /\ UNCHANGED <<peers, jobs, state, clock, my_request, request_number,
                   pending_acks, all_acks_event, pc, print_ts, result,
                   handlers, releases, heldLog,
                   printingClientVars, printed>>

\* _send_request_to_peer: the failed call ends the thread without being counted
PeerDownUncounted(c) ==
    /\ c.phase = "calling"
    /\ pc[c.to] = "off"
    /\ calls' = calls \ {c}
    /\ handlers' = {h \in handlers : ~(h.at = c.to /\ h.from = c.from /\ h.rn = c.rn)}
    /\ UNCHANGED <<peers, jobs, state, clock, my_request, request_number,
                   pending_acks, all_acks_event, pc, print_ts, result,
                   releases, heldLog, faults, expired,
                   printingClientVars, printed>>

\* _send_request_to_peer: stub.RequestAccess raised because the peer is not
\* running; the request reaches nobody
PeerDown(c) ==
    /\ c.phase = "calling"
    /\ pc[c.to] = "off"
    /\ calls' = (calls \ {c}) \cup {[c EXCEPT !.phase = "counting"]}
    /\ handlers' = {h \in handlers : ~(h.at = c.to /\ h.from = c.from /\ h.rn = c.rn)}
    /\ UNCHANGED <<peers, jobs, state, clock, my_request, request_number,
                   pending_acks, all_acks_event, pc, print_ts, result,
                   releases, heldLog, faults, expired,
                   printingClientVars, printed>>

\* _send_request_to_peer, the finally block under state_lock
AckCount(c) ==
    /\ c.phase = "counting"
    /\ LockFree(c.from)
    /\ pending_acks' = [pending_acks EXCEPT ![c.from] = @ - 1]
    /\ all_acks_event' = [all_acks_event EXCEPT ![c.from] =
                             IF pending_acks'[c.from] = 0 THEN TRUE ELSE @]
    /\ calls' = calls \ {c}
    /\ UNCHANGED <<peers, jobs, state, clock, my_request, request_number, pc,
                   print_ts, result, handlers, releases, heldLog, faults, expired,
                   printingClientVars, printed>>

\* _safe_release: stub.ReleaseAccess raised and the exception is swallowed
ReleaseFail(r) ==
    /\ releases' = releases \ {r}
    /\ UNCHANGED <<peers, jobs, state, clock, my_request, request_number,
                   pending_acks, all_acks_event, pc, print_ts, result, calls,
                   handlers, heldLog, faults, expired,
                   printingClientVars, printed>>

(***************************************************************************)
(* PrintingClient (src/client/printing_client.py): the variant of the node *)
(* that answers RequestAccess at once, with access_granted true or false.  *)
(* A cluster runs either ClientNode or PrintingClient on all its nodes;    *)
(* peers, jobs, clock (LamportClock.time), request_number, pc, print_ts,   *)
(* calls (send_req_to threads), handlers and releases are used by both.    *)
(***************************************************************************)

\* PrintingClient.__init__ and start of every launched node: the generator
\* thread sleeps before its first job
BootPrinting(p, q, up) ==
    /\ peers = p
    /\ jobs = q
    /\ state = [n \in Nodes |-> "RELEASED"]
    /\ clock = [n \in Nodes |-> 0]
    /\ my_request = [n \in Nodes |-> NoRequest]
    /\ request_number = [n \in Nodes |-> 0]
    /\ pending_acks = [n \in Nodes |-> 0]
    /\ all_acks_event = [n \in Nodes |-> FALSE]
    /\ pc = [n \in Nodes |-> IF n \in up THEN "sleep" ELSE "off"]
    /\ print_ts = [n \in Nodes |-> 0]
    /\ result = [n \in Nodes |-> "none"]
    /\ calls = {}
    /\ handlers = {}
    /\ releases = {}
    /\ heldLog = <<>>
    /\ faults = 0
    /\ expired = {}
    /\ requesting = [n \in Nodes |-> FALSE]
    /\ request_ts = [n \in Nodes |-> 0]
    /\ deferred = [n \in Nodes |-> {}]
    /\ replies_needed = [n \in Nodes |-> {}]
    /\ printed = <<>>

\* Nodes 1 and 2 run PrintingClient, each with the other as its peer or with
\* an empty --peers
InitPrinting ==
    \E q \in Workloads(Pair) :
    \E p \in [Nodes -> SUBSET Nodes] :
        /\ \A n \in Nodes : p[n] \in {Mesh(Pair)[n], {}}
        /\ BootPrinting(p, q, Pair)

\* state_lock of PrintingClient n is free: no send_req_to thread of n is
\* blocked in `with self.reply_cv` while it holds state_lock (reply_cv is
\* built on state_lock, which is not reentrant)
StateLockFree(n) == \A c \in calls : c.from = n => c.phase # "stuck"

\* The decision of MutualExclusionServicer.RequestAccess under state_lock
ServicerGrants(n, their_ts, their_id) ==
    \/ ~requesting[n]
    \/ TupleLess(their_ts, their_id, request_ts[n], n)

\* _auto_print_generator wakes up; request_critical_section step 1 under
\* state_lock, then one send_req_to thread per peer
RequestCriticalSection(n) ==
    /\ pc[n] = "sleep"
    /\ request_number[n] < jobs[n]
    /\ StateLockFree(n)
    /\ requesting' = [requesting EXCEPT ![n] = TRUE]
    /\ clock' = [clock EXCEPT ![n] = Tick(@)]
    /\ request_ts' = [request_ts EXCEPT ![n] = clock'[n]]
    /\ request_number' = [request_number EXCEPT ![n] = @ + 1]
    /\ replies_needed' = [replies_needed EXCEPT ![n] = peers[n]]
    /\ calls' = calls \cup
         {[from |-> n, to |-> p, rn |-> request_number'[n], ts |-> request_ts'[n],
           phase |-> "calling", rts |-> 0, granted |-> FALSE] : p \in peers[n]}
    /\ handlers' = handlers \cup
         {[at |-> p, from |-> n, ts |-> request_ts'[n], rn |-> request_number'[n],
           phase |-> "inbound", grant |-> FALSE] : p \in peers[n]}
    /\ pc' = [pc EXCEPT ![n] = "await"]
    /\ UNCHANGED <<peers, jobs, print_ts, releases, faults, deferred,
                   clientNodeVars, printed>>

\* MutualExclusionServicer.RequestAccess, before the lock: lamport.update
ServicerRecv(h) ==
    /\ h.phase = "inbound"
    /\ clock' = [clock EXCEPT ![h.at] = UpdateOnRecv(@, h.ts)]
    /\ handlers' = (handlers \ {h}) \cup {[h EXCEPT !.phase = "locking"]}
    /\ UNCHANGED <<peers, jobs, request_number, pc, print_ts, calls, releases,
                   faults, printingClientVars, clientNodeVars, printed>>

\* MutualExclusionServicer.RequestAccess under state_lock: grant or defer
ServicerDecide(h) ==
    /\ h.phase = "locking"
    /\ StateLockFree(h.at)
    /\ LET grant == ServicerGrants(h.at, h.ts, h.from) IN
        /\ deferred' = [deferred EXCEPT ![h.at] =
                            IF grant THEN @ ELSE @ \cup {h.from}]
        /\ handlers' = (handlers \ {h}) \cup
                          {[h EXCEPT !.phase = "decided", !.grant = grant]}
    /\ UNCHANGED <<peers, jobs, clock, request_number, pc, print_ts, calls,
                   releases, faults, requesting, request_ts, replies_needed,
                   clientNodeVars, printed>>

\* MutualExclusionServicer.RequestAccess returns AccessResponse(grant,
\* lamport.tick()); the reply reaches the caller if its call is still open
ServicerReturn(h) ==
    /\ h.phase = "decided"
    /\ clock' = [clock EXCEPT ![h.at] = Tick(@)]
    /\ handlers' = handlers \ {h}
    /\ calls' = {IF c.from = h.from /\ c.to = h.at /\ c.rn = h.rn
                    /\ c.phase = "calling"
                 THEN [c EXCEPT !.phase = "responded", !.rts = clock'[h.at],
                                !.granted = h.grant]
                 ELSE c : c \in calls}
    /\ UNCHANGED <<peers, jobs, request_number, pc, print_ts, releases, faults,
                   printingClientVars, clientNodeVars, printed>>

\* MutualExclusionServicer.ReleaseAccess: lamport.update, then state_lock is
\* taken and nothing is changed under it.  No reachable state enables it: a
\* PrintingClient that has peers never leaves its wait loop (a send_req_to
\* thread keeps state_lock), so none sends a ReleaseAccess.
ServicerRelease(r) ==
    /\ pc[r.to] # "off"
    /\ clock' = [clock EXCEPT ![r.to] = UpdateOnRecv(@, r.ts)]
    /\ releases' = releases \ {r}
    /\ UNCHANGED <<peers, jobs, request_number, pc, print_ts, calls, handlers,
                   faults, printingClientVars, clientNodeVars, printed>>

\* send_req_to: the response arrived, lamport.update
SendReqUpdate(c) ==
    /\ c.phase = "responded"
    /\ clock' = [clock EXCEPT ![c.from] = UpdateOnRecv(@, c.rts)]
    /\ calls' = (calls \ {c}) \cup {[c EXCEPT !.phase = "updated", !.rts = 0]}
    /\ UNCHANGED <<peers, jobs, request_number, pc, print_ts, handlers,
                   releases, faults, printingClientVars, clientNodeVars, printed>>

\* send_req_to with access_granted true, under state_lock: the peer leaves
\* replies_needed and the thread blocks in `with self.reply_cv`, holding
\* state_lock; if the peer is not in replies_needed the thread ends
SendReqGranted(c) ==
    /\ c.phase = "updated"
    /\ c.granted
    /\ StateLockFree(c.from)
    /\ replies_needed' = [replies_needed EXCEPT ![c.from] = @ \ {c.to}]
    /\ calls' = IF c.to \in replies_needed[c.from]
                THEN (calls \ {c}) \cup {[c EXCEPT !.phase = "stuck"]}
                ELSE calls \ {c}
    /\ UNCHANGED <<peers, jobs, clock, request_number, pc, print_ts, handlers,
                   releases, faults, requesting, request_ts, deferred,
                   clientNodeVars, printed>>

\* send_req_to with access_granted false, under state_lock: nothing changes
SendReqRefused(c) ==
    /\ c.phase = "updated"
    /\ ~c.granted
    /\ StateLockFree(c.from)
    /\ calls' = calls \ {c}
    /\ UNCHANGED <<peers, jobs, clock, request_number, pc, print_ts, handlers,
                   releases, faults, printingClientVars, clientNodeVars, printed>>

\* send_req_to: stub.RequestAccess raised (timeout=5, peer unreachable); the
\* except branch under state_lock does what the granted branch does
SendReqFail(c) ==
    /\ c.phase = "calling"
    /\ faults < MaxFaults
    /\ StateLockFree(c.from)
    /\ faults' = faults + 1
    /\ replies_needed' = [replies_needed EXCEPT ![c.from] = @ \ {c.to}]
    /\ calls' = IF c.to \in replies_needed[c.from]
                THEN (calls \ {c}) \cup {[c EXCEPT !.phase = "stuck"]}
                ELSE calls \ {c}
    /\ UNCHANGED <<peers, jobs, clock, request_number, pc, print_ts, handlers,
                   releases, requesting, request_ts, deferred, clientNodeVars, printed>>

\* request_critical_section leaves its wait loop: it holds state_lock and
\* replies_needed is empty
EnterCriticalSection(n) ==
    /\ pc[n] = "await"
    /\ StateLockFree(n)
    /\ replies_needed[n] = {}
    /\ pc' = [pc EXCEPT ![n] = "critical"]
    /\ UNCHANGED <<peers, jobs, clock, request_number, print_ts, calls,
                   handlers, releases, faults, printingClientVars,
                   clientNodeVars, printed>>

\* request_critical_section: lamport.tick() before the PrintRequest is built
CriticalTick(n) ==
    /\ pc[n] = "critical"
    /\ clock' = [clock EXCEPT ![n] = Tick(@)]
    /\ pc' = [pc EXCEPT ![n] = "stamping"]
    /\ UNCHANGED <<peers, jobs, request_number, print_ts, calls, handlers,
                   releases, faults, printingClientVars, clientNodeVars, printed>>

\* request_critical_section: the PrintRequest carries lamport.read()
CriticalSend(n) ==
    /\ pc[n] = "stamping"
    /\ print_ts' = [print_ts EXCEPT ![n] = clock[n]]
    /\ pc' = [pc EXCEPT ![n] = "sent"]
    /\ UNCHANGED <<peers, jobs, clock, request_number, calls, handlers,
                   releases, faults, printingClientVars, clientNodeVars, printed>>

\* SendToPrinter answers with the request's timestamp echoed: lamport.update
CriticalRecv(n) ==
    /\ pc[n] = "sent"
    /\ clock' = [clock EXCEPT ![n] = UpdateOnRecv(@, print_ts[n])]
    /\ print_ts' = [print_ts EXCEPT ![n] = 0]
    /\ pc' = [pc EXCEPT ![n] = "leaving"]
    /\ printed' = Append(printed, <<n, request_number[n]>>)
    /\ UNCHANGED <<peers, jobs, request_number, calls, handlers, releases,
                   faults, printingClientVars, clientNodeVars>>

\* SendToPrinter raises: the exception is printed and the release follows
CriticalFail(n) ==
    /\ pc[n] = "sent"
    /\ print_ts' = [print_ts EXCEPT ![n] = 0]
    /\ pc' = [pc EXCEPT ![n] = "leaving"]
    /\ \E received \in BOOLEAN :
         printed' = IF received THEN Append(printed, <<n, request_number[n]>>)
                    ELSE printed
    /\ UNCHANGED <<peers, jobs, clock, request_number, calls, handlers,
                   releases, faults, printingClientVars, clientNodeVars>>

\* request_critical_section leaves: under state_lock requesting is reset and
\* deferred cleared, then ReleaseAccess is sent to every peer
LeaveCriticalSection(n) ==
    /\ pc[n] = "leaving"
    /\ StateLockFree(n)
    /\ requesting' = [requesting EXCEPT ![n] = FALSE]
    /\ clock' = [clock EXCEPT ![n] = Tick(@)]
    /\ deferred' = [deferred EXCEPT ![n] = {}]
    /\ releases' = releases \cup
         {[to |-> p, from |-> n, ts |-> clock'[n], rn |-> request_number[n]] :
            p \in peers[n]}
    /\ pc' = [pc EXCEPT ![n] = "sleep"]
    /\ UNCHANGED <<peers, jobs, request_number, print_ts, calls, handlers,
                   faults, request_ts, replies_needed, clientNodeVars, printed>>

(***************************************************************************)
(* Specifications                                                          *)
(***************************************************************************)

\* No RPC fails
Next ==
    \/ \E n \in Nodes : StartAttempt(n)
    \/ \E n \in Nodes : BroadcastRequest(n)
    \/ \E n \in Nodes : EnterHeld(n)
    \/ \E n \in Nodes : PrintSend(n)
    \/ \E n \in Nodes : PrintRecv(n)
    \/ \E n \in Nodes : ExitCS(n)
    \/ \E n \in Nodes : BroadcastRelease(n)
    \/ \E h \in handlers : HandlerRecv(h)
    \/ \E h \in handlers : HandlerGrant(h)
    \/ \E h \in handlers : HandlerReturn(h)
    \/ \E r \in releases : ReleaseRecv(r)
    \/ \E c \in calls : AckRecv(c)
    \/ \E c \in calls : AckCount(c)

Spec == Init /\ [][Next]_vars

\* Some runnable thread eventually runs
FairSpec == Spec /\ WF_vars(Next)

\* RPCs may fail, the driver's wait may time out, nodes may have no peers
NextT ==
    \/ Next
    \/ \E n \in Nodes : DriverTimeout(n)
    \/ \E c \in calls : RequestFail(c)

SpecT == InitCfg /\ [][NextT]_vars

\* The driver's wait may time out, nodes may have no peers, no RPC fails
NextTimeout ==
    \/ Next
    \/ \E n \in Nodes : DriverTimeout(n)

SpecTimeout == InitCfg /\ [][NextTimeout]_vars

\* The printer and the ReleaseAccess calls may fail
NextF ==
    \/ Next
    \/ \E n \in Nodes : PrintFail(n)
    \/ \E r \in releases : ReleaseFail(r)

SpecF == Init /\ [][NextF]_vars

FairSpecF == SpecF /\ WF_vars(NextF)

\* Three nodes, no RPC fails
Spec3 == Init3 /\ [][Next]_vars

FairSpec3 == Spec3 /\ WF_vars(Next)

\* Node 3 has crashed: nodes 1 and 2 run and list both other nodes as peers,
\* and only one of them generates jobs (scenario S4)
InitDown ==
    \E q \in Workloads(Pair) :
        /\ \E n \in Pair : q[n] = MaxAttempts
        /\ Boot(Mesh(Nodes), q, Pair)

\* A peer is down; RequestAccess and ReleaseAccess calls may fail
NextDown ==
    \/ Next
    \/ \E c \in calls : PeerDown(c)
    \/ \E c \in calls : RequestFail(c)
    \/ \E r \in releases : ReleaseFail(r)

SpecDown == InitDown /\ [][NextDown]_vars

FairSpecDown == SpecDown /\ WF_vars(NextDown)

\* A peer is down and ReleaseAccess calls may fail; no deadline expires
NextCrash ==
    \/ Next
    \/ \E c \in calls : PeerDown(c)
    \/ \E r \in releases : ReleaseFail(r)

SpecCrash == InitDown /\ [][NextCrash]_vars

\* Two nodes running PrintingClient; a RequestAccess call may fail
NextPrinting ==
    \/ \E n \in Nodes : RequestCriticalSection(n)
    \/ \E h \in handlers : ServicerRecv(h)
    \/ \E h \in handlers : ServicerDecide(h)
    \/ \E h \in handlers : ServicerReturn(h)
    \/ \E c \in calls : SendReqUpdate(c)
    \/ \E c \in calls : SendReqGranted(c)
    \/ \E c \in calls : SendReqRefused(c)
    \/ \E c \in calls : SendReqFail(c)
    \/ \E n \in Nodes : EnterCriticalSection(n)
    \/ \E n \in Nodes : CriticalTick(n)
    \/ \E n \in Nodes : CriticalSend(n)
    \/ \E n \in Nodes : CriticalRecv(n)
    \/ \E n \in Nodes : CriticalFail(n)
    \/ \E n \in Nodes : LeaveCriticalSection(n)

SpecPrinting == InitPrinting /\ [][NextPrinting]_vars

\* Every thread of a PrintingClient cluster that can take a step takes one
FairSpecPrinting == SpecPrinting /\ WF_vars(NextPrinting)


(***************************************************************************)
(* Properties                                                              *)
(***************************************************************************)

Held(n) == state[n] = "HELD"

\* C1: with unique ids, no crash and no failed or expired RequestAccess, at
\* most one node is HELD at any time, under every schedule.
C1_MutualExclusion ==
    \A a \in Nodes : \A b \in Nodes : a # b => ~(Held(a) /\ Held(b))

\* C1 witness: a node is HELD while its peer is WANTED and the peer's request
\* waits in the holder's handler.
C1_Witness ==
    \E h \in handlers :
        /\ h.phase = "waiting"
        /\ Held(h.at)
        /\ state[h.from] = "WANTED"
        /\ h.rn = request_number[h.from]

\* C2: when no peer crashes and no RPC fails, every attempt (state WANTED)
\* eventually reaches HELD and afterwards RELEASED, under fair scheduling.
C2_Progress ==
    \A n \in Nodes :
        /\ (state[n] = "WANTED") ~> Held(n)
        /\ Held(n) ~> (state[n] = "RELEASED")

\* C3: the (lamport_timestamp, client_id) carried by the RequestAccess
\* messages of an attempt is the key (my_request.ts, client_id) its sender
\* uses in its own handler during that attempt.
C3_SentRequestIsMyRequest ==
    \A h \in handlers :
        (h.rn = request_number[h.from] /\ my_request[h.from] # NoRequest)
            => <<h.ts, h.from>> = <<my_request[h.from][1], my_request[h.from][2]>>

\* Nodes a and b are both in an attempt and stamped the same timestamp
Tied(a, b) ==
    /\ state[a] = "WANTED"
    /\ state[b] = "WANTED"
    /\ my_request[a][1] = my_request[b][1]

\* C4: when two nodes stamp the same timestamp concurrently, the smaller
\* id wins: it enters HELD, the larger id does not enter HELD before it, and
\* the larger id enters HELD afterwards.
C4_TiebreakById ==
    \A a \in Nodes : \A b \in Nodes :
        a < b =>
            /\ Tied(a, b) ~> (Held(a) /\ ~Held(b))
            /\ Tied(a, b) ~> Held(b)

\* The three nodes are in an attempt with the same timestamp
AllTied == \A n \in Nodes : \A m \in Nodes : n # m => Tied(n, m)

\* C5: three nodes requesting concurrently with equal timestamps all enter
\* HELD, in ascending client_id order.
C5_CascadingDefer == AllTied ~> (heldLog = <<1, 2, 3>>)

\* C6: when a requester's RequestAccess to a live peer expires while that
\* peer defers the reply, the two are still never HELD at the same time.
C6_DeadlineKeepsExclusion ==
    \A e \in expired : ~(Held(e[1]) /\ Held(e[2]))

\* C7: after the driver's wait for the grants timed out, the node is
\* RELEASED with my_request cleared, not left in WANTED.
C7_TimeoutAbortsCleanly ==
    \A n \in Nodes :
        (pc[n] = "idle" /\ result[n] = "timeout")
            => (state[n] = "RELEASED" /\ my_request[n] = NoRequest)

\* C8: the driver waiting for the grants is unblocked exactly when every
\* RequestAccess of the attempt has terminated and been counted, for every
\* peer set, the empty one included.
C8_UnblocksExactlyOnDrain ==
    \A n \in Nodes :
        pc[n] = "wait" => (all_acks_event[n] <=> CallsOf(n) = {})

\* The handler of node a for b's request is deferring
Deferring(a, b) ==
    \E h \in handlers :
        h.at = a /\ h.from = b /\ h.phase = "waiting" /\ Defers(h)

\* C9: every inbound RequestAccess a node defers is eventually replied to,
\* under fair scheduling and no failures.
C9_DeferralLiveness ==
    \A a \in Nodes : \A b \in Nodes :
        Deferring(a, b) ~> ~(\E h \in handlers : h.at = a /\ h.from = b)

\* The key (ts1, id1) is greater than the key (ts2, id2)
KeyGreater(ts1, id1, ts2, id2) == ts1 > ts2 \/ (ts1 = ts2 /\ id1 > id2)

\* C10: a RequestAccess handler returns only while its node is RELEASED, or
\* WANTED with its own key (my_request.ts, client_id) greater than the
\* requester's (lamport_timestamp, client_id); never while HELD.
C10_DeferralPolicy ==
    \A h \in handlers :
        h.phase = "ticked" =>
            \/ state[h.at] = "RELEASED"
            \/ /\ state[h.at] = "WANTED"
               /\ my_request[h.at] # NoRequest
               /\ KeyGreater(my_request[h.at][1], h.at, h.ts, h.from)

\* C10 witness: a handler returns while its node is WANTED, the requester's
\* request_number being larger than the node's own.
C10_Witness ==
    \E h \in handlers :
        /\ h.phase = "ticked"
        /\ state[h.at] = "WANTED"
        /\ h.rn > request_number[h.at]

\* C11: every AccessResponse returned from RequestAccess has access_granted =
\* true, so that no requester ever holds a response with access_granted =
\* false; a deferral is only a delayed reply.
C11_AlwaysGranted ==
    \A c \in calls : c.phase = "responded" => c.granted

\* Node n is the only one whose generator produces jobs (scenario S1)
OnlyRequester(n) == jobs[n] = MaxAttempts /\ \A m \in Nodes \ {n} : jobs[m] = 0

\* The request_numbers of the jobs in s are 1, 2, ... in this order
InRequestOrder(s) == \A i \in 1..Len(s) : s[i][2] = i

\* The only requester n has been HELD once per job and the printer has
\* received its jobs in request_number order
AllPrinted(n) ==
    /\ heldLog = [i \in 1..MaxAttempts |-> n]
    /\ printed = [i \in 1..MaxAttempts |-> <<n, i>>]

\* C12: a RequestAccess arriving at a RELEASED node is not held in the wait
\* loop; when only node n generates jobs, no handler ever defers, the printer
\* receives n's jobs in increasing request_number order, and n ends up
\* having been HELD and having printed for each of its jobs.
C12_SoleRequester ==
    /\ [](\A h \in handlers : state[h.at] = "RELEASED" => ~Defers(h))
    /\ [](\A n \in Nodes :
            OnlyRequester(n) =>
                /\ \A h \in handlers : ~Defers(h)
                /\ InRequestOrder(printed))
    /\ \A n \in Nodes : <>[](OnlyRequester(n) => AllPrinted(n))

\* C12 witness: the only requester has been HELD for each of its jobs, the
\* printer has received all but the last one, and both peers granted.
C12_Witness ==
    \E n \in Nodes :
        /\ OnlyRequester(n)
        /\ heldLog = [i \in 1..MaxAttempts |-> n]
        /\ printed = [i \in 1..MaxAttempts - 1 |-> <<n, i>>]
        /\ pc[n] = "printing"

\* The driver of n could see all_acks_event.wait expire: the event is clear
\* and no sender thread is left to set it
WaitWouldExpire(n) ==
    pc[n] = "wait" /\ ~all_acks_event[n] /\ CallsOf(n) = {}

\* C13: a failed RequestAccess (deadline, peer not running) is counted as a
\* grant and never reaches the driver: a node with a crashed peer never sees
\* its wait expire and never returns an error, and the only requester is
\* HELD and prints for each job and ends up with the result ok and no release
\* thread left, although every RequestAccess and ReleaseAccess to the crashed
\* peer failed.
C13_FailureCountsAsGrant ==
    /\ [](\A n \in Nodes :
            peers[n] # {} => (result[n] \in {"none", "ok"} /\ ~WaitWouldExpire(n)))
    /\ \A n \in Nodes :
         <>[](OnlyRequester(n) =>
                /\ AllPrinted(n)
                /\ pc[n] = "idle"
                /\ result[n] = "ok"
                /\ releases = {})

\* C13 witness: the requester is HELD for its last job after a RequestAccess
\* to the live peer expired as well, and releases of the earlier jobs to the
\* crashed peer are still failing.
C13_Witness ==
    \E n \in Nodes :
        /\ OnlyRequester(n)
        /\ heldLog = [i \in 1..MaxAttempts |-> n]
        /\ pc[n] = "held"
        /\ faults = MaxFaults
        /\ \E r \in releases : r.from = n /\ pc[r.to] = "off"

\* request_and_print of n has just returned: the node is RELEASED with
\* my_request cleared, no handler of n is kept in the wait loop, and a
\* ReleaseAccess of the attempt is on its way to every peer
ReleasedAfter(n) ==
    /\ pc[n] = "idle"
    /\ state[n] = "RELEASED"
    /\ my_request[n] = NoRequest
    /\ \A h \in handlers : h.at = n => ~Defers(h)
    /\ \A p \in peers[n] :
         \E r \in releases : r.to = p /\ r.from = n /\ r.rn = request_number[n]

\* The driver of n is between entering HELD and returning from request_and_print
InCriticalPath(n) == pc[n] \in {"held", "printing", "exit", "release"}

\* C14: a node that entered HELD always goes on to return from
\* request_and_print, and on the way, whether SendToPrinter succeeds or
\* fails, it leaves HELD only to RELEASED with my_request cleared and no
\* handler deferred any more, then broadcasts ReleaseAccess and returns; the
\* failure of SendToPrinter is the result it returns.
C14_ReleaseNotSkipped ==
    /\ [](\A n \in Nodes : Held(n) => InCriticalPath(n))
    /\ [][\A n \in Nodes :
            /\ (pc[n] = "printing" /\ pc'[n] # "printing")
                  => (pc'[n] = "exit" /\ Held(n)')
            /\ (Held(n) /\ ~Held(n)')
                  => /\ state'[n] = "RELEASED"
                     /\ my_request'[n] = NoRequest
                     /\ pc'[n] = "release"
                     /\ result'[n] = result[n]
            /\ (pc[n] = "release" /\ pc'[n] # "release")
                  => (ReleasedAfter(n)' /\ result'[n] = result[n])]_vars
    /\ \A n \in Nodes : []<>(~InCriticalPath(n))

\* C14 witness: SendToPrinter failed, the node is RELEASED again, its
\* ReleaseAccess is in flight and the handler it had deferred is free to reply.
C14_Witness ==
    \E n \in Nodes :
        /\ ReleasedAfter(n)
        /\ result[n] = "fail"
        /\ \E h \in handlers : h.at = n /\ h.phase = "waiting"

\* C15: whenever state_lock is free, my_request is set exactly when the
\* node's state is WANTED or HELD, after any sequence of attempts, those
\* that ended in a timeout of the wait for the grants included.
C15_RequestIffNotReleased ==
    \A n \in Nodes :
        LockFree(n) => (my_request[n] # NoRequest <=> state[n] # "RELEASED")

\* C15 witness: a node's second attempt ended in a timeout and the driver is
\* back in the generator loop.
C15_Witness ==
    \E n \in Nodes :
        /\ pc[n] = "idle"
        /\ result[n] = "timeout"
        /\ request_number[n] >= 2
        /\ LockFree(n)
        /\ my_request[n] # NoRequest

\* The transitions of RAState the design allows
LegalTransitions ==
    {<<"RELEASED", "WANTED">>, <<"WANTED", "HELD">>, <<"HELD", "RELEASED">>,
     <<"WANTED", "RELEASED">>}

\* C16: a node's state only changes along RELEASED -> WANTED, WANTED -> HELD,
\* HELD -> RELEASED or WANTED -> RELEASED, and a new attempt (a new
\* my_request is assigned) starts only from RELEASED.
C16_OnlyLegalTransitions ==
    [][\A n \in Nodes :
          /\ state'[n] # state[n] => <<state[n], state'[n]>> \in LegalTransitions
          /\ (my_request'[n] # my_request[n] /\ my_request'[n] # NoRequest)
                => state[n] = "RELEASED"]_vars

\* The timestamps of the messages node n is about to receive
IncomingTs(n) ==
    {h.ts : h \in {g \in handlers : g.at = n /\ g.phase \in {"arrived", "inbound"}}}
    \cup {r.ts : r \in {q \in releases : q.to = n}}
    \cup {c.rts : c \in {d \in calls : d.from = n /\ d.phase = "responded"}}
    \cup (IF pc[n] \in {"printing", "sent"} THEN {print_ts[n]} ELSE {})

\* C17: every step leaves a node's clock unchanged, or is a tick that makes
\* it the previous value plus one, or an update_on_recv(t) that makes it
\* max(previous, t) + 1 for an incoming timestamp t; hence the clock never
\* decreases and each returned value exceeds every earlier one, whatever the
\* interleaving of the callers.
C17_ClockMonotonic ==
    [][\A n \in Nodes :
          /\ clock'[n] >= clock[n]
          /\ \/ clock'[n] = clock[n]
             \/ clock'[n] = clock[n] + 1
             \/ \E t \in IncomingTs(n) : clock'[n] = Max(clock[n], t) + 1]_vars

\* C17 witness: a handler has run update_on_recv with a timestamp smaller
\* than the clock while the node's own driver was ticking for an attempt.
C17_Witness ==
    \E h \in handlers :
        /\ h.phase = "waiting"
        /\ h.ts + 1 < clock[h.at]
        /\ pc[h.at] \in {"broadcast", "wait"}

\* The messages node n has emitted and that are still in flight, each as
\* (kind, attempt it belongs to, lamport_timestamp)
Outbound(n) ==
    {<<"AccessRequest", <<n, h.rn>>, h.ts>> :
        h \in {g \in handlers : g.from = n /\ g.phase = "arrived"}}
    \cup {<<"AccessResponse", <<c.from, c.rn>>, c.rts>> :
        c \in {d \in calls : d.to = n /\ d.phase = "responded"}}
    \cup {<<"AccessRelease", <<n, r.rn>>, r.ts>> :
        r \in {q \in releases : q.from = n}}
    \cup (IF pc[n] = "printing"
          THEN {<<"PrintRequest", <<n, request_number[n]>>, print_ts[n]>>}
          ELSE {})

\* C18: the timestamps a node emits on its outbound messages are strictly
\* increasing, so no two different messages of a node carry the same
\* timestamp, however the driver interleaves with the inbound handlers.
C18_OutboundStrictlyIncreasing ==
    \A n \in Nodes :
        \A a \in Outbound(n) : \A b \in Outbound(n) : a # b => a[3] # b[3]

\* C19: a message carries a larger timestamp than every message that
\* causally precedes it: an AccessResponse than the AccessRequest it answers,
\* and of two different messages of one node, one was sent first, so their
\* timestamps differ.
C19_CausalOrder ==
    /\ \A c \in calls : c.phase = "responded" => c.ts < c.rts
    /\ \A n \in Nodes :
         \A c \in {d \in calls : d.to = n /\ d.phase = "responded"} :
         \A h \in {g \in handlers : g.from = n /\ g.phase = "arrived"} :
             c.rts # h.ts
    /\ \A n \in Nodes :
         \A c \in {d \in calls : d.to = n /\ d.phase = "responded"} :
         \A r \in {q \in releases : q.from = n} :
             c.rts # r.ts

RequestsSent(n) == {<<c.to, c.rn>> : c \in CallsOf(n)}

\* The ReleaseAccess calls of node n that are open, as (peer, request_number)
ReleasesSent(n) == {<<r.to, r.rn>> : r \in {q \in releases : q.from = n}}

\* One call of the current attempt of n per peer
OnePerPeer(n) == {<<p, request_number[n]>> : p \in peers[n]}

\* C21: an attempt sends its RequestAccess calls in one step, exactly one
\* per peer, and nowhere else; an attempt that reached HELD sends its
\* ReleaseAccess calls in one step when it returns, exactly one per peer, and
\* nowhere else; an attempt is broadcast once; whichever calls fail.
C21_OneCallPerPeer ==
    [][\A n \in Nodes :
          /\ request_number'[n] # request_number[n]
                => (pc[n] = "idle" /\ pc'[n] = "broadcast")
          /\ IF pc[n] = "broadcast" /\ pc'[n] # "broadcast"
             THEN /\ RequestsSent(n)' \ RequestsSent(n) = OnePerPeer(n)
                  /\ Cardinality(CallsOf(n)' \ CallsOf(n)) = Cardinality(peers[n])
             ELSE RequestsSent(n)' \subseteq RequestsSent(n)
          /\ IF pc[n] = "release" /\ pc'[n] # "release"
             THEN /\ ReleasesSent(n)' \ ReleasesSent(n) = OnePerPeer(n)
                  /\ Cardinality(releases' \ releases) = Cardinality(peers[n])
                  /\ pc'[n] = "idle"
             ELSE ReleasesSent(n)' \subseteq ReleasesSent(n)
          /\ (InCriticalPath(n) /\ ~InCriticalPath(n)')
                => (pc[n] = "release" /\ pc'[n] = "idle")]_vars

\* C21 witness: an attempt has returned ok although its RequestAccess to the
\* crashed peer failed, and a ReleaseAccess of that attempt is open for each
\* of its two peers.
C21_Witness ==
    \E n \in Nodes :
        /\ pc[n] = "idle"
        /\ result[n] = "ok"
        /\ request_number[n] >= 1
        /\ \E p \in peers[n] : pc[p] = "off"
        /\ Cardinality({r \in releases : r.from = n /\ r.rn = request_number[n]}) = 2

\* The handlers of node n that are kept in the wait loop
Blocked(n) == {h \in handlers : h.at = n /\ h.phase = "waiting" /\ Defers(h)}

DefersCurrent(a, b) ==
    \E h \in handlers :
        /\ h.at = a /\ h.from = b
        /\ h.phase = "waiting"
        /\ h.rn = request_number[b]
        /\ Defers(h)

\* C23: no two WANTED nodes each defer the RequestAccess of the other's
\* current attempt: of two concurrent requesters one replies, so the wait-for
\* relation among requesting nodes has no cycle.
C23_NoMutualDeferral ==
    \A a \in Nodes : \A b \in Nodes :
        (a # b /\ state[a] = "WANTED" /\ state[b] = "WANTED")
            => ~(DefersCurrent(a, b) /\ DefersCurrent(b, a))

\* The send_req_to thread of n for peer p ended in its refused branch: p is
\* still in replies_needed and the driver of n is in its wait loop
Refused(n, p) ==
    /\ pc[n] = "await"
    /\ p \in replies_needed[n]
    /\ ~(\E c \in calls : c.from = n /\ c.to = p)

\* Peer p, which refused n while it was requesting, has left its critical
\* section and none of its ReleaseAccess calls is still on its way
HasReleased(p) ==
    /\ ~requesting[p]
    /\ pc[p] = "sleep"
    /\ ~(\E r \in releases : r.from = p)

\* C24: a PrintingClient that got access_granted = false from a peer waits
\* for that peer's release: once the peer has left its critical section and
\* its ReleaseAccess calls are done, the requester's replies_needed becomes
\* empty and it enters the critical section.
C24_RefusedEntersAfterRelease ==
    \A n \in Nodes : \A p \in Nodes :
        (Refused(n, p) /\ HasReleased(p))
            ~> (replies_needed[n] = {} /\ pc[n] = "critical")

\* C25: no send_req_to thread of a PrintingClient blocks on state_lock while
\* holding it: every thread that records a grant or a failed call ends, and
\* the driver can take state_lock again.
C25_NoSelfDeadlock ==
    \A c \in calls : c.phase # "stuck"

=============================================================================
